---------------------------- MODULE Spec2Model ----------------------------
(***************************************************************************)
(* Activity-participation subsystem of the orphanage management server:    *)
(* the handlers of src/server/src/handlers/activities.ts and               *)
(* src/server/src/handlers/activity_participations.ts over the tables of   *)
(* src/server/src/db/schema.ts, with the seeding of the first user         *)
(* (src/server/src/handlers/seed_admin.ts, users.ts).                      *)
(*                                                                         *)
(* Every handler is an async function: it runs to its next `await` without *)
(* interruption, and every awaited database statement is one atomic step   *)
(* of the store.  A request is therefore a process whose position (pc) is  *)
(* the statement it awaits next; no handler opens a transaction.           *)
(***************************************************************************)
EXTENDS Integers, FiniteSets, Sequences, TLC

VARIABLES
  activities,           \* rows of activitiesTable
  participations,       \* rows of activityParticipationsTable
  nextActivityId,       \* the serial of activities.id
  nextParticipationId,  \* the serial of activity_participations.id
  clock,                \* the store's now()
  users,                \* rows of usersTable
  nextUserId,           \* the serial of users.id
  pc,                   \* per request: the statement awaited next
  frame,                \* per request: the handler's arguments and locals
  result,               \* per request: what the handler returned or threw
  pre,                  \* history: the store as it was when the running call began
  lastRemoved,          \* history: the id the preceding call removed, if it removed one
  prevCall              \* history: the preceding call and how it ended

vars == <<activities, participations, nextActivityId, nextParticipationId,
          clock, users, nextUserId, pc, frame, result, pre, lastRemoved, prevCall>>

userStore == <<users, nextUserId>>

store == <<activities, participations, nextActivityId, nextParticipationId, clock,
           userStore>>

history == <<pre, lastRemoved, prevCall>>

-----------------------------------------------------------------------------
(* Bounds of the model *)

\* The serial of activity_participations.id is not advanced past this value.
MaxParticipationId == 3

\* The serial of activities.id is not advanced past this value.
MaxActivityId == 2

\* Time is not advanced past this value.
MaxClock == 2

\* The serial of users.id is not advanced past this value.
MaxUserId == 2

-----------------------------------------------------------------------------
(* Values *)

\* JavaScript null in a numeric column or field.
NULL == -1

\* JavaScript undefined: an optional numeric field absent from the input.
UNDEF == -2

\* null and undefined in a text column or field.
NULLS == "<null>"
UNDEFS == "<undefined>"

ActivityStatus == {"PLANNED", "ONGOING", "COMPLETED", "CANCELLED"}
ParticipationStatus == {"REGISTERED", "ATTENDED", "ABSENT", "CANCELLED"}

\* The requests in flight.
Procs == {"r1", "r2"}

\* The rows of staffTable and childrenTable; no handler here writes them.
StaffIds == {1}
ChildIds == {1, 2, 3}

\* An id no table holds (the tests use 999).
NoSuchId == 999

\* A number below zero, as a request may carry it.
NegativeLimit == -5

\* `x || null` on a number and on a string.
OrNull(x) == IF x = UNDEF \/ x = NULL \/ x = 0 THEN NULL ELSE x
OrNullS(s) == IF s = UNDEFS \/ s = NULLS \/ s = "" THEN NULLS ELSE s

-----------------------------------------------------------------------------
(* The frames and results of a request *)

NoFrame == [op |-> "none"]
NoResult == [kind |-> "none"]
NoPre == [participations |-> {}, activities |-> {}, nextParticipationId |-> 0]
NoCall == [op |-> "none"]

Threw(e) == [kind |-> "error", error |-> e]
Returned(kind, v) == [kind |-> kind, value |-> v]

Snapshot == [participations |-> participations, activities |-> activities,
             nextParticipationId |-> nextParticipationId]

\* The handler of request p settles: its promise resolves or rejects.
Settle(p, r) ==
  /\ pc' = [pc EXCEPT ![p] = "done"]
  /\ result' = [result EXCEPT ![p] = r]

Goto(p, label) ==
  /\ pc' = [pc EXCEPT ![p] = label]
  /\ UNCHANGED result

-----------------------------------------------------------------------------
(* Queries of createActivityParticipation *)

SelectActivity(id) == {a \in activities : a.id = id}

SelectChild(id) == {c \in ChildIds : c = id}

\* Seeded fault: the duplicate check skips cancelled rows.
SelectExistingNotCancelled(activity_id, child_id) ==
  {r \in participations : /\ r.activity_id = activity_id
                          /\ r.child_id = child_id
                          /\ r.status # "CANCELLED"}

\* Duplicate check: any row of the pair, whatever its status.
SelectExisting(activity_id, child_id) ==
  {r \in participations : r.activity_id = activity_id /\ r.child_id = child_id}

\* Seeded fault: the count leaves out the WHERE clause.
CountEveryParticipation(activity_id) == Cardinality(participations)

\* Seeded fault: a counter of the rows ever inserted stands in for the count.
CountEverInserted(activity_id) == nextParticipationId - 1

\* Seeded fault: cancelled rows are not counted.
CountActiveParticipations(activity_id) ==
  Cardinality({r \in participations : /\ r.activity_id = activity_id
                                        /\ r.status # "CANCELLED"})

CountParticipations(activity_id) ==
  Cardinality({r \in participations : r.activity_id = activity_id})

\* Seeded fault: the null test on max_participants is dropped.
HasLimitAlways(activity) == TRUE

HasLimit(activity) == activity.max_participants # NULL

\* Seeded fault: `>` in place of `>=`.
LimitReachedStrict(currentCount, activity) == currentCount > activity.max_participants

LimitReached(currentCount, activity) == currentCount >= activity.max_participants

\* Seeded fault: the status is forced to REGISTERED.
NewParticipationRegistered(input) ==
  [id            |-> nextParticipationId,
   activity_id   |-> input.activity_id,
   child_id      |-> input.child_id,
   status        |-> "REGISTERED",
   notes         |-> OrNullS(input.notes),
   registered_at |-> clock,
   updated_at    |-> clock]

NewParticipation(input) ==
  [id            |-> nextParticipationId,
   activity_id   |-> input.activity_id,
   child_id      |-> input.child_id,
   status        |-> input.status,
   notes         |-> OrNullS(input.notes),
   registered_at |-> clock,
   updated_at    |-> clock]

-----------------------------------------------------------------------------
(* createActivityParticipation *)

\* The requests that will still draw an id from the serial.
Enrolling == {q \in Procs : pc[q] \in {"enroll_activity", "enroll_child",
                                       "enroll_existing", "enroll_count",
                                       "enroll_insert"}}

EnrollCall(p, input) ==
  /\ pc[p] = "idle"
  /\ nextParticipationId + Cardinality(Enrolling) <= MaxParticipationId
  /\ pc' = [pc EXCEPT ![p] = "enroll_activity"]
  /\ frame' = [frame EXCEPT ![p] = [op |-> "enroll", input |-> input]]
  /\ result' = [result EXCEPT ![p] = NoResult]
  /\ UNCHANGED store

\* Seeded fault: the child is looked up before the activity.
EnrollActivityAfterChild(p) ==
  /\ pc[p] = "enroll_activity"
  /\ LET activity == SelectActivity(frame[p].input.activity_id) IN
       IF SelectChild(frame[p].input.child_id) = {}
       THEN /\ Settle(p, Threw("ChildNotFound"))
            /\ UNCHANGED frame
       ELSE IF activity = {}
       THEN /\ Settle(p, Threw("ActivityNotFound"))
            /\ UNCHANGED frame
       ELSE /\ Goto(p, "enroll_child")
            /\ frame' = [frame EXCEPT ![p] =
                 [op |-> "enroll", input |-> frame[p].input,
                  activity |-> CHOOSE a \in activity : TRUE]]
  /\ UNCHANGED <<store, history>>

EnrollActivity(p) ==
  /\ pc[p] = "enroll_activity"
  /\ LET activity == SelectActivity(frame[p].input.activity_id) IN
       IF activity = {}
       THEN /\ Settle(p, Threw("ActivityNotFound"))
            /\ UNCHANGED frame
       ELSE /\ Goto(p, "enroll_child")
            /\ frame' = [frame EXCEPT ![p] =
                 [op |-> "enroll", input |-> frame[p].input,
                  activity |-> CHOOSE a \in activity : TRUE]]
  /\ UNCHANGED <<store, history>>

EnrollChild(p) ==
  /\ pc[p] = "enroll_child"
  /\ IF SelectChild(frame[p].input.child_id) = {}
     THEN Settle(p, Threw("ChildNotFound"))
     ELSE Goto(p, "enroll_existing")
  /\ UNCHANGED <<frame, store, history>>

\* Seeded fault: the limit is checked before the duplicate.
EnrollExistingAfterCount(p) ==
  /\ pc[p] = "enroll_existing"
  /\ IF /\ HasLimit(frame[p].activity)
        /\ LimitReached(CountParticipations(frame[p].input.activity_id), frame[p].activity)
     THEN Settle(p, Threw("CapacityExceeded"))
     ELSE IF SelectExisting(frame[p].input.activity_id, frame[p].input.child_id) # {}
          THEN Settle(p, Threw("Duplicate"))
          ELSE IF HasLimit(frame[p].activity)
               THEN Goto(p, "enroll_count")
               ELSE Goto(p, "enroll_insert")
  /\ UNCHANGED <<frame, store, history>>

EnrollExisting(p) ==
  /\ pc[p] = "enroll_existing"
  /\ IF SelectExisting(frame[p].input.activity_id, frame[p].input.child_id) # {}
     THEN Settle(p, Threw("Duplicate"))
     ELSE IF HasLimit(frame[p].activity)
          THEN Goto(p, "enroll_count")
          ELSE Goto(p, "enroll_insert")
  /\ UNCHANGED <<frame, store, history>>

\* Seeded fault: the row is inserted before the limit is checked.
EnrollCountAfterInsert(p) ==
  /\ pc[p] = "enroll_count"
  /\ LET row == NewParticipation(frame[p].input) IN
       /\ participations' = participations \cup {row}
       /\ nextParticipationId' = nextParticipationId + 1
       /\ IF CountParticipations(frame[p].input.activity_id) + 1
               > frame[p].activity.max_participants
          THEN Settle(p, Threw("CapacityExceeded"))
          ELSE Settle(p, Returned("row", row))
  /\ UNCHANGED <<frame, activities, nextActivityId, clock, userStore,
               history>>

EnrollCount(p) ==
  /\ pc[p] = "enroll_count"
  /\ IF LimitReached(CountParticipations(frame[p].input.activity_id), frame[p].activity)
     THEN Settle(p, Threw("CapacityExceeded"))
     ELSE Goto(p, "enroll_insert")
  /\ UNCHANGED <<frame, store, history>>

EnrollInsert(p) ==
  /\ pc[p] = "enroll_insert"
  /\ LET row == NewParticipation(frame[p].input) IN
       /\ participations' = participations \cup {row}
       /\ nextParticipationId' = nextParticipationId + 1
       /\ Settle(p, Returned("row", row))
  /\ UNCHANGED <<frame, activities, nextActivityId, clock, userStore,
               history>>

\* The whole handler run with no other request in flight, as a function of the
\* store st it starts from: its result and the store it leaves.
EnrollAlone(st, input) ==
  LET activity == {a \in st.activities : a.id = input.activity_id}
      existing == {r \in st.participations : /\ r.activity_id = input.activity_id
                                             /\ r.child_id = input.child_id}
      currentCount == Cardinality({r \in st.participations :
                                     r.activity_id = input.activity_id})
      row == [id            |-> st.nextParticipationId,
              activity_id   |-> input.activity_id,
              child_id      |-> input.child_id,
              status        |-> input.status,
              notes         |-> OrNullS(input.notes),
              registered_at |-> clock,
              updated_at    |-> clock]
      Fail(e) == [result |-> Threw(e), store |-> st]
  IN  IF activity = {} THEN Fail("ActivityNotFound")
      ELSE IF SelectChild(input.child_id) = {} THEN Fail("ChildNotFound")
      ELSE IF existing # {} THEN Fail("Duplicate")
      ELSE IF /\ (CHOOSE a \in activity : TRUE).max_participants # NULL
              /\ currentCount >= (CHOOSE a \in activity : TRUE).max_participants
           THEN Fail("CapacityExceeded")
      ELSE [result |-> Returned("row", row),
            store  |-> [participations      |-> st.participations \cup {row},
                        activities          |-> st.activities,
                        nextParticipationId |-> st.nextParticipationId + 1]]

\* The caller takes the settled result; the request slot is free again.
Return(p) ==
  /\ pc[p] = "done"
  /\ pc' = [pc EXCEPT ![p] = "idle"]
  /\ frame' = [frame EXCEPT ![p] = NoFrame]
  /\ result' = [result EXCEPT ![p] = NoResult]
  /\ UNCHANGED store

-----------------------------------------------------------------------------
(* updateParticipationStatus, removeActivityParticipation *)

\* Seeded fault: registered_at is refreshed too.
SetParticipationStatusAndRegistered(r, status) ==
  [r EXCEPT !.status = status, !.updated_at = clock, !.registered_at = clock]

\* Seeded fault: a cancelled row keeps its status.
SetParticipationStatusUnlessCancelled(r, status) ==
  IF r.status = "CANCELLED" THEN r
  ELSE [r EXCEPT !.status = status, !.updated_at = clock]

\* UPDATE ... SET status, updated_at = now() WHERE id = id RETURNING
SetParticipationStatus(r, status) ==
  [r EXCEPT !.status = status, !.updated_at = clock]

UpdateParticipationStatusCall(p, id, status) ==
  /\ pc[p] = "idle"
  /\ pc' = [pc EXCEPT ![p] = "pstatus_write"]
  /\ frame' = [frame EXCEPT ![p] = [op |-> "pstatus", id |-> id, status |-> status]]
  /\ result' = [result EXCEPT ![p] = NoResult]
  /\ UNCHANGED store

UpdateParticipationStatusWrite(p) ==
  /\ pc[p] = "pstatus_write"
  /\ LET hit == {r \in participations : r.id = frame[p].id}
         new == {SetParticipationStatus(r, frame[p].status) : r \in hit} IN
       /\ participations' = (participations \ hit) \cup new
       /\ IF new # {}
          THEN Settle(p, Returned("row", CHOOSE r \in new : TRUE))
          ELSE Settle(p, Returned("null", NULL))
  /\ UNCHANGED <<frame, activities, nextActivityId, nextParticipationId, clock, userStore,
               history>>

\* Seeded fault: success is reported whether or not a row was deleted.
RemoveSuccessAlways(deleted) == TRUE

\* { success: result.length > 0 }
RemoveSuccess(deleted) == Cardinality(deleted) > 0

RemoveCall(p, id) ==
  /\ pc[p] = "idle"
  /\ pc' = [pc EXCEPT ![p] = "remove_delete"]
  /\ frame' = [frame EXCEPT ![p] = [op |-> "remove", id |-> id]]
  /\ result' = [result EXCEPT ![p] = NoResult]
  /\ UNCHANGED store

\* Seeded fault: a delete that matches no row throws.
RemoveDeleteThrowing(p) ==
  /\ pc[p] = "remove_delete"
  /\ LET deleted == {r \in participations : r.id = frame[p].id} IN
       /\ participations' = participations \ deleted
       /\ IF deleted = {}
          THEN Settle(p, Threw("ParticipationNotFound"))
          ELSE Settle(p, Returned("success", RemoveSuccess(deleted)))
  /\ UNCHANGED <<frame, activities, nextActivityId, nextParticipationId, clock, userStore,
               history>>

\* Seeded fault: success is reported and the row is kept as it is.
RemoveDeleteNothing(p) ==
  /\ pc[p] = "remove_delete"
  /\ LET deleted == {r \in participations : r.id = frame[p].id} IN
       /\ participations' = participations
       /\ Settle(p, Returned("success", RemoveSuccess(deleted)))
  /\ UNCHANGED <<frame, activities, nextActivityId, nextParticipationId, clock, userStore,
               history>>

\* Seeded fault: the row is marked CANCELLED and kept.
RemoveDeleteSoft(p) ==
  /\ pc[p] = "remove_delete"
  /\ LET deleted == {r \in participations : r.id = frame[p].id} IN
       /\ participations' = (participations \ deleted)
                              \cup {[r EXCEPT !.status = "CANCELLED"] : r \in deleted}
       /\ Settle(p, Returned("success", RemoveSuccess(deleted)))
  /\ UNCHANGED <<frame, activities, nextActivityId, nextParticipationId, clock, userStore,
               history>>

RemoveDelete(p) ==
  /\ pc[p] = "remove_delete"
  /\ LET deleted == {r \in participations : r.id = frame[p].id} IN
       /\ participations' = participations \ deleted
       /\ Settle(p, Returned("success", RemoveSuccess(deleted)))
  /\ UNCHANGED <<frame, activities, nextActivityId, nextParticipationId, clock, userStore,
               history>>

-----------------------------------------------------------------------------
(* getParticipationsByActivityId, getParticipationsByChildId *)

\* Seeded fault: the rows are filtered on the other column.
SelectByActivityWrongColumn(activityId) ==
  {r \in participations : r.child_id = activityId}

SelectByActivity(activityId) ==
  {r \in participations : r.activity_id = activityId}

SelectByChild(childId) ==
  {r \in participations : r.child_id = childId}

GetByActivityCall(p, activityId) ==
  /\ pc[p] = "idle"
  /\ pc' = [pc EXCEPT ![p] = "by_activity_select"]
  /\ frame' = [frame EXCEPT ![p] = [op |-> "getByActivity", id |-> activityId]]
  /\ result' = [result EXCEPT ![p] = NoResult]
  /\ UNCHANGED store

GetByActivitySelect(p) ==
  /\ pc[p] = "by_activity_select"
  /\ Settle(p, Returned("rows", SelectByActivity(frame[p].id)))
  /\ UNCHANGED <<frame, store, history>>

GetByChildCall(p, childId) ==
  /\ pc[p] = "idle"
  /\ pc' = [pc EXCEPT ![p] = "by_child_select"]
  /\ frame' = [frame EXCEPT ![p] = [op |-> "getByChild", id |-> childId]]
  /\ result' = [result EXCEPT ![p] = NoResult]
  /\ UNCHANGED store

GetByChildSelect(p) ==
  /\ pc[p] = "by_child_select"
  /\ Settle(p, Returned("rows", SelectByChild(frame[p].id)))
  /\ UNCHANGED <<frame, store, history>>

-----------------------------------------------------------------------------
(* createActivity *)

\* Seeded fault: the staff select finds a row for every id.
SelectStaffAny(id) == {id}

SelectStaff(id) == {s \in StaffIds : s = id}

\* Seeded fault: a status carried by the input is stored.
NewActivityWithStatus(input) ==
  [id               |-> nextActivityId,
   title            |-> input.title,
   description      |-> OrNullS(input.description),
   activity_date    |-> input.activity_date,
   location         |-> OrNullS(input.location),
   status           |-> IF input.status # UNDEFS THEN input.status ELSE "PLANNED",
   max_participants |-> OrNull(input.max_participants),
   created_by       |-> input.created_by,
   created_at       |-> clock,
   updated_at       |-> clock]

NewActivity(input) ==
  [id               |-> nextActivityId,
   title            |-> input.title,
   description      |-> OrNullS(input.description),
   activity_date    |-> input.activity_date,
   location         |-> OrNullS(input.location),
   status           |-> "PLANNED",
   max_participants |-> OrNull(input.max_participants),
   created_by       |-> input.created_by,
   created_at       |-> clock,
   updated_at       |-> clock]

Creating == {q \in Procs : pc[q] \in {"create_staff", "create_insert"}}

CreateActivityCall(p, input) ==
  /\ pc[p] = "idle"
  /\ nextActivityId + Cardinality(Creating) <= MaxActivityId
  /\ pc' = [pc EXCEPT ![p] = "create_staff"]
  /\ frame' = [frame EXCEPT ![p] = [op |-> "create", input |-> input]]
  /\ result' = [result EXCEPT ![p] = NoResult]
  /\ UNCHANGED store

\* Seeded fault: the owner is not looked up.
CreateActivityStaffUnchecked(p) ==
  /\ pc[p] = "create_staff"
  /\ Goto(p, "create_insert")
  /\ UNCHANGED <<frame, store, history>>

CreateActivityStaff(p) ==
  /\ pc[p] = "create_staff"
  /\ IF SelectStaff(frame[p].input.created_by) = {}
     THEN Settle(p, Threw("StaffNotFound"))
     ELSE Goto(p, "create_insert")
  /\ UNCHANGED <<frame, store, history>>

CreateActivityInsert(p) ==
  /\ pc[p] = "create_insert"
  /\ LET row == NewActivity(frame[p].input) IN
       /\ activities' = activities \cup {row}
       /\ nextActivityId' = nextActivityId + 1
       /\ Settle(p, Returned("row", row))
  /\ UNCHANGED <<frame, participations, nextParticipationId, clock, userStore,
               history>>

-----------------------------------------------------------------------------
(* updateActivity *)

\* The updateValues object: updated_at and every field present in the input.
UpdateValues(input, now) ==
  [title            |-> input.title,
   description      |-> IF input.description # UNDEFS
                        THEN OrNullS(input.description) ELSE UNDEFS,
   activity_date    |-> input.activity_date,
   location         |-> IF input.location # UNDEFS
                        THEN OrNullS(input.location) ELSE UNDEFS,
   max_participants |-> IF input.max_participants # UNDEF
                        THEN OrNull(input.max_participants) ELSE UNDEF,
   created_by       |-> input.created_by,
   updated_at       |-> now]

\* Seeded fault: the status column is written too, with its default.
SetActivityAndStatus(a, v) ==
  [id               |-> a.id,
   title            |-> IF v.title # UNDEFS THEN v.title ELSE a.title,
   description      |-> IF v.description # UNDEFS THEN v.description ELSE a.description,
   activity_date    |-> IF v.activity_date # UNDEF THEN v.activity_date ELSE a.activity_date,
   location         |-> IF v.location # UNDEFS THEN v.location ELSE a.location,
   status           |-> "PLANNED",
   max_participants |-> IF v.max_participants # UNDEF
                        THEN v.max_participants ELSE a.max_participants,
   created_by       |-> IF v.created_by # UNDEF THEN v.created_by ELSE a.created_by,
   created_at       |-> a.created_at,
   updated_at       |-> v.updated_at]

\* Seeded fault: every column is written, present in the object or not.
SetActivityEveryColumn(a, v) ==
  [id               |-> a.id,
   title            |-> v.title,
   description      |-> v.description,
   activity_date    |-> v.activity_date,
   location         |-> v.location,
   status           |-> a.status,
   max_participants |-> v.max_participants,
   created_by       |-> v.created_by,
   created_at       |-> a.created_at,
   updated_at       |-> v.updated_at]

\* .set(updateValues): a column is written when the object has the key.
SetActivity(a, v) ==
  [id               |-> a.id,
   title            |-> IF v.title # UNDEFS THEN v.title ELSE a.title,
   description      |-> IF v.description # UNDEFS THEN v.description ELSE a.description,
   activity_date    |-> IF v.activity_date # UNDEF THEN v.activity_date ELSE a.activity_date,
   location         |-> IF v.location # UNDEFS THEN v.location ELSE a.location,
   status           |-> a.status,
   max_participants |-> IF v.max_participants # UNDEF
                        THEN v.max_participants ELSE a.max_participants,
   created_by       |-> IF v.created_by # UNDEF THEN v.created_by ELSE a.created_by,
   created_at       |-> a.created_at,
   updated_at       |-> v.updated_at]

UpdateActivityCall(p, id, input) ==
  /\ pc[p] = "idle"
  /\ pc' = [pc EXCEPT ![p] = "update_get"]
  /\ frame' = [frame EXCEPT ![p] = [op |-> "update", id |-> id, input |-> input]]
  /\ result' = [result EXCEPT ![p] = NoResult]
  /\ UNCHANGED store

\* Seeded fault: a missing activity is reported by throwing.
UpdateActivityGetThrowing(p) ==
  /\ pc[p] = "update_get"
  /\ IF SelectActivity(frame[p].id) = {}
     THEN /\ Settle(p, Threw("ActivityNotFound"))
          /\ UNCHANGED frame
     ELSE IF frame[p].input.created_by # UNDEF
          THEN /\ Goto(p, "update_staff")
               /\ UNCHANGED frame
          ELSE /\ Goto(p, "update_write")
               /\ frame' = [frame EXCEPT ![p] =
                    [op |-> "update", id |-> frame[p].id, input |-> frame[p].input,
                     updateValues |-> UpdateValues(frame[p].input, clock)]]
  /\ UNCHANGED <<store, history>>

UpdateActivityGet(p) ==
  /\ pc[p] = "update_get"
  /\ IF SelectActivity(frame[p].id) = {}
     THEN /\ Settle(p, Returned("null", NULL))
          /\ UNCHANGED frame
     ELSE IF frame[p].input.created_by # UNDEF
          THEN /\ Goto(p, "update_staff")
               /\ UNCHANGED frame
          ELSE /\ Goto(p, "update_write")
               /\ frame' = [frame EXCEPT ![p] =
                    [op |-> "update", id |-> frame[p].id, input |-> frame[p].input,
                     updateValues |-> UpdateValues(frame[p].input, clock)]]
  /\ UNCHANGED <<store, history>>

\* Seeded fault: the owner is not looked up.
UpdateActivityStaffUnchecked(p) ==
  /\ pc[p] = "update_staff"
  /\ Goto(p, "update_write")
  /\ frame' = [frame EXCEPT ![p] =
       [op |-> "update", id |-> frame[p].id, input |-> frame[p].input,
        updateValues |-> UpdateValues(frame[p].input, clock)]]
  /\ UNCHANGED <<store, history>>

UpdateActivityStaff(p) ==
  /\ pc[p] = "update_staff"
  /\ IF SelectStaff(frame[p].input.created_by) = {}
     THEN /\ Settle(p, Threw("StaffNotFound"))
          /\ UNCHANGED frame
     ELSE /\ Goto(p, "update_write")
          /\ frame' = [frame EXCEPT ![p] =
               [op |-> "update", id |-> frame[p].id, input |-> frame[p].input,
                updateValues |-> UpdateValues(frame[p].input, clock)]]
  /\ UNCHANGED <<store, history>>

UpdateActivityWrite(p) ==
  /\ pc[p] = "update_write"
  /\ LET hit == SelectActivity(frame[p].id)
         new == {SetActivity(a, frame[p].updateValues) : a \in hit} IN
       /\ activities' = (activities \ hit) \cup new
       /\ IF new # {}
          THEN Settle(p, Returned("row", CHOOSE a \in new : TRUE))
          ELSE Settle(p, Returned("null", NULL))
  /\ UNCHANGED <<frame, participations, nextActivityId, nextParticipationId, clock, userStore,
               history>>

-----------------------------------------------------------------------------
(* updateActivityStatus *)

\* Seeded fault: a completed or cancelled activity keeps its status.
SetActivityStatusUnlessTerminal(a, status, now) ==
  IF a.status \in {"COMPLETED", "CANCELLED"} THEN a
  ELSE [a EXCEPT !.status = status, !.updated_at = now]

\* .set({ status, updated_at: new Date() })
SetActivityStatus(a, status, now) ==
  [a EXCEPT !.status = status, !.updated_at = now]

UpdateActivityStatusCall(p, id, status) ==
  /\ pc[p] = "idle"
  /\ pc' = [pc EXCEPT ![p] = "status_get"]
  /\ frame' = [frame EXCEPT ![p] = [op |-> "status", id |-> id, status |-> status]]
  /\ result' = [result EXCEPT ![p] = NoResult]
  /\ UNCHANGED store

UpdateActivityStatusGet(p) ==
  /\ pc[p] = "status_get"
  /\ IF SelectActivity(frame[p].id) = {}
     THEN /\ Settle(p, Returned("null", NULL))
          /\ UNCHANGED frame
     ELSE /\ Goto(p, "status_write")
          /\ frame' = [frame EXCEPT ![p] =
               [op |-> "status", id |-> frame[p].id, status |-> frame[p].status,
                now |-> clock]]
  /\ UNCHANGED <<store, history>>

UpdateActivityStatusWrite(p) ==
  /\ pc[p] = "status_write"
  /\ LET hit == SelectActivity(frame[p].id)
         new == {SetActivityStatus(a, frame[p].status, frame[p].now) : a \in hit} IN
       /\ activities' = (activities \ hit) \cup new
       /\ IF new # {}
          THEN Settle(p, Returned("row", CHOOSE a \in new : TRUE))
          ELSE Settle(p, Returned("null", NULL))
  /\ UNCHANGED <<frame, participations, nextActivityId, nextParticipationId, clock, userStore,
               history>>

-----------------------------------------------------------------------------
(* seedDefaultAdmin and createUser *)

\* Bun.password.hash: the stored text is a digest, never the password itself.
PasswordHash(password) == <<"bcrypt", password>>

\* INSERT INTO users ... RETURNING, with the column defaults.
NewUser(email, password_hash, role) ==
  [id            |-> nextUserId,
   email         |-> email,
   password_hash |-> password_hash,
   role          |-> role,
   is_active     |-> TRUE,
   created_at    |-> clock,
   updated_at    |-> clock]

\* The unique constraint on users.email.
EmailTaken(email) == \E u \in users : u.email = email

\* The requests that will still draw an id from the users serial.
InsertingUser == {q \in Procs : pc[q] \in {"seed_select", "seed_hash", "seed_insert",
                                            "user_hash", "user_insert"}}

\* `!defaultEmail || !defaultPassword`
EnvMissing(env) ==
  \/ env.DEFAULT_ADMIN_EMAIL \in {UNDEFS, ""}
  \/ env.DEFAULT_ADMIN_PASSWORD \in {UNDEFS, ""}

SeedCall(p, env) ==
  /\ pc[p] = "idle"
  /\ nextUserId + Cardinality(InsertingUser) <= MaxUserId
  /\ pc' = [pc EXCEPT ![p] = "seed_select"]
  /\ frame' = [frame EXCEPT ![p] = [op |-> "seed", env |-> env]]
  /\ result' = [result EXCEPT ![p] = NoResult]
  /\ UNCHANGED store

\* Seeded fault: the table is not looked at.
SeedSelectUnchecked(p) ==
  /\ pc[p] = "seed_select"
  /\ IF EnvMissing(frame[p].env)
     THEN Settle(p, Threw("EnvMissing"))
     ELSE Goto(p, "seed_hash")
  /\ UNCHANGED <<frame, store, history>>

\* SELECT ... FROM users LIMIT 1, then the environment is read.
SeedSelect(p) ==
  /\ pc[p] = "seed_select"
  /\ IF users # {}
     THEN Settle(p, Returned("void", NULL))
     ELSE IF EnvMissing(frame[p].env)
          THEN Settle(p, Threw("EnvMissing"))
          ELSE Goto(p, "seed_hash")
  /\ UNCHANGED <<frame, store, history>>

SeedHash(p) ==
  /\ pc[p] = "seed_hash"
  /\ Goto(p, "seed_insert")
  /\ frame' = [frame EXCEPT ![p] =
       [op |-> "seed", env |-> frame[p].env,
        passwordHash |-> PasswordHash(frame[p].env.DEFAULT_ADMIN_PASSWORD)]]
  /\ UNCHANGED <<store, history>>

SeedInsert(p) ==
  /\ pc[p] = "seed_insert"
  /\ IF EmailTaken(frame[p].env.DEFAULT_ADMIN_EMAIL)
     THEN /\ Settle(p, Threw("UniqueViolation"))
          /\ UNCHANGED userStore
     ELSE /\ users' = users \cup {NewUser(frame[p].env.DEFAULT_ADMIN_EMAIL,
                                           frame[p].passwordHash, "ADMIN")}
          /\ nextUserId' = nextUserId + 1
          /\ Settle(p, Returned("void", NULL))
  /\ UNCHANGED <<frame, activities, participations, nextActivityId,
                 nextParticipationId, clock, history>>

CreateUserCall(p, input) ==
  /\ pc[p] = "idle"
  /\ nextUserId + Cardinality(InsertingUser) <= MaxUserId
  /\ pc' = [pc EXCEPT ![p] = "user_hash"]
  /\ frame' = [frame EXCEPT ![p] = [op |-> "createUser", input |-> input]]
  /\ result' = [result EXCEPT ![p] = NoResult]
  /\ UNCHANGED store

CreateUserHash(p) ==
  /\ pc[p] = "user_hash"
  /\ Goto(p, "user_insert")
  /\ frame' = [frame EXCEPT ![p] =
       [op |-> "createUser", input |-> frame[p].input,
        password_hash |-> PasswordHash(frame[p].input.password)]]
  /\ UNCHANGED <<store, history>>

CreateUserInsert(p) ==
  /\ pc[p] = "user_insert"
  /\ IF EmailTaken(frame[p].input.email)
     THEN /\ Settle(p, Threw("UniqueViolation"))
          /\ UNCHANGED userStore
     ELSE /\ LET row == NewUser(frame[p].input.email, frame[p].password_hash,
                                frame[p].input.role) IN
               /\ users' = users \cup {row}
               /\ Settle(p, Returned("row", row))
          /\ nextUserId' = nextUserId + 1
  /\ UNCHANGED <<frame, activities, participations, nextActivityId,
                 nextParticipationId, clock, history>>

-----------------------------------------------------------------------------
(* The router's input validation for createActivity and updateActivity *)

\* Seeded fault: .positive() is missing.
AnyMaxParticipants(x) == TRUE

\* max_participants: z.number().positive().nullable().optional()
ValidMaxParticipants(x) == x = UNDEF \/ x = NULL \/ x > 0

\* The createActivity procedure: the input is parsed, then the handler runs.
CreateActivityRequest(p, raw) ==
  /\ pc[p] = "idle"
  /\ IF ValidMaxParticipants(raw.max_participants)
     THEN CreateActivityCall(p, raw)
     ELSE /\ Settle(p, Threw("BadRequest"))
          /\ frame' = [frame EXCEPT ![p] = [op |-> "create", input |-> raw]]
          /\ UNCHANGED store

\* The updateActivity procedure, over the partial schema.
UpdateActivityRequest(p, id, raw) ==
  /\ pc[p] = "idle"
  /\ IF ValidMaxParticipants(raw.max_participants)
     THEN UpdateActivityCall(p, id, raw)
     ELSE /\ Settle(p, Threw("BadRequest"))
          /\ frame' = [frame EXCEPT ![p] = [op |-> "update", id |-> id, input |-> raw]]
          /\ UNCHANGED store

-----------------------------------------------------------------------------
(* Starting states *)

\* The activity row of the handlers' tests, with a given id and limit.
TestActivity(id, max) ==
  [id               |-> id,
   title            |-> "Test Activity",
   description      |-> "A test activity",
   activity_date    |-> 1,
   location         |-> "Test Location",
   status           |-> "PLANNED",
   max_participants |-> max,
   created_by       |-> 1,
   created_at       |-> 0,
   updated_at       |-> 0]

\* The user the tests insert before the staff member and the child.
TestUser ==
  [id |-> 1, email |-> "staff@test.com", password_hash |-> <<"text", "hashed_password">>,
   role |-> "STAFF", is_active |-> TRUE, created_at |-> 0, updated_at |-> 0]

InitRequests ==
  /\ pc = [p \in Procs |-> "idle"]
  /\ frame = [p \in Procs |-> NoFrame]
  /\ result = [p \in Procs |-> NoResult]
  /\ pre = NoPre
  /\ lastRemoved = NULL
  /\ prevCall = NoCall

\* An empty store.
InitEmpty ==
  /\ activities = {}
  /\ participations = {}
  /\ nextActivityId = 1
  /\ nextParticipationId = 1
  /\ clock = 0
  /\ users = {TestUser}
  /\ nextUserId = 2
  /\ InitRequests

\* Activity 1 with a limit, activity 2 without one, nobody enrolled.
InitTwoActivities ==
  /\ \E max \in {1, 2} : activities = {TestActivity(1, max), TestActivity(2, NULL)}
  /\ participations = {}
  /\ nextActivityId = 3
  /\ nextParticipationId = 1
  /\ clock = 0
  /\ users = {TestUser}
  /\ nextUserId = 2
  /\ InitRequests

-----------------------------------------------------------------------------
(* Concurrent enrollments: requests interleave at every await *)

EnrollRaceInputs ==
  [activity_id : {1, 2}, child_id : {1, 2}, status : {"REGISTERED"}, notes : {UNDEFS}]

NextEnroll ==
  \E p \in Procs :
    \/ \E input \in EnrollRaceInputs : EnrollCall(p, input) /\ UNCHANGED history
    \/ EnrollActivity(p)
    \/ EnrollChild(p)
    \/ EnrollExisting(p)
    \/ EnrollCount(p)
    \/ EnrollInsert(p)
    \/ Return(p) /\ UNCHANGED history

SpecEnroll == InitTwoActivities /\ [][NextEnroll]_vars

-----------------------------------------------------------------------------
(* Sequential calls: a call begins only when no other is in flight *)

Begin ==
  /\ \A q \in Procs : pc[q] = "idle"
  /\ pre' = Snapshot
  /\ UNCHANGED <<lastRemoved, prevCall>>

SeqReturn(p) ==
  /\ Return(p)
  /\ pre' = NoPre
  /\ UNCHANGED <<lastRemoved, prevCall>>

\* The same, remembering the id when the call was a removal that deleted a row.
SeqReturnRemembering(p) ==
  /\ Return(p)
  /\ pre' = NoPre
  /\ lastRemoved' = IF frame[p].op = "remove" /\ result[p].value
                    THEN frame[p].id ELSE NULL
  /\ UNCHANGED prevCall

\* The same, remembering the call: for a status update, its id, its status and
\* whether it returned a row.
SeqReturnRecording(p) ==
  /\ Return(p)
  /\ pre' = NoPre
  /\ prevCall' = IF frame[p].op = "pstatus"
                 THEN [op |-> "pstatus", id |-> frame[p].id,
                       status |-> frame[p].status,
                       ok |-> result[p].kind = "row"]
                 ELSE [op |-> frame[p].op]
  /\ UNCHANGED lastRemoved

SeqEnrollInputs ==
  [activity_id : {1, 2, NoSuchId}, child_id : {1, 2, NoSuchId},
   status : {"REGISTERED", "ATTENDED"}, notes : {"Test participation"}]

ParticipationIdInputs == 1..MaxParticipationId \cup {NoSuchId}

\* Enrollment, status change and removal over the two activities.
NextSeq ==
  \E p \in {"r1"} :
    \/ \E input \in SeqEnrollInputs : Begin /\ EnrollCall(p, input)
    \/ EnrollActivity(p)
    \/ EnrollChild(p)
    \/ EnrollExisting(p)
    \/ EnrollCount(p)
    \/ EnrollInsert(p)
    \/ \E id \in ParticipationIdInputs, status \in ParticipationStatus :
         Begin /\ UpdateParticipationStatusCall(p, id, status)
    \/ UpdateParticipationStatusWrite(p)
    \/ \E id \in ParticipationIdInputs : Begin /\ RemoveCall(p, id)
    \/ RemoveDelete(p)
    \/ SeqReturn(p)

SpecSeq == InitTwoActivities /\ [][NextSeq]_vars

-----------------------------------------------------------------------------
(* Sequential calls of every writing handler, from an empty store *)

CapEnrollInputs ==
  [activity_id : {1, 2}, child_id : {1, 2}, status : {"REGISTERED"}, notes : {UNDEFS}]

CapCreateInputs ==
  [title : {"Test Activity"}, description : {UNDEFS}, activity_date : {1},
   location : {UNDEFS}, max_participants : {UNDEF, 1, 2}, created_by : {1, NoSuchId}]

\* Partial inputs: a new limit, or a new owner.
CapUpdateInputs ==
  [title : {UNDEFS}, description : {UNDEFS}, activity_date : {UNDEF},
   location : {UNDEFS}, max_participants : {NULL, 1, 2}, created_by : {UNDEF}]
  \cup
  [title : {UNDEFS}, description : {UNDEFS}, activity_date : {UNDEF},
   location : {UNDEFS}, max_participants : {UNDEF}, created_by : {1, NoSuchId}]

ActivityIdInputs == 1..MaxActivityId \cup {NoSuchId}

NextCapacity ==
  \E p \in {"r1"} :
    \/ \E input \in CapEnrollInputs : Begin /\ EnrollCall(p, input)
    \/ EnrollActivity(p)
    \/ EnrollChild(p)
    \/ EnrollExisting(p)
    \/ EnrollCount(p)
    \/ EnrollInsert(p)
    \/ \E id \in ParticipationIdInputs, status \in {"CANCELLED"} :
         Begin /\ UpdateParticipationStatusCall(p, id, status)
    \/ UpdateParticipationStatusWrite(p)
    \/ \E id \in ParticipationIdInputs : Begin /\ RemoveCall(p, id)
    \/ RemoveDelete(p)
    \/ \E input \in CapCreateInputs : Begin /\ CreateActivityCall(p, input)
    \/ CreateActivityStaff(p)
    \/ CreateActivityInsert(p)
    \/ \E id \in ActivityIdInputs, input \in CapUpdateInputs :
         Begin /\ UpdateActivityCall(p, id, input)
    \/ UpdateActivityGet(p)
    \/ UpdateActivityStaff(p)
    \/ UpdateActivityWrite(p)
    \/ \E id \in ActivityIdInputs, status \in {"ONGOING"} :
         Begin /\ UpdateActivityStatusCall(p, id, status)
    \/ UpdateActivityStatusGet(p)
    \/ UpdateActivityStatusWrite(p)
    \/ SeqReturn(p)

SpecCapacity == InitEmpty /\ [][NextCapacity]_vars

-----------------------------------------------------------------------------
(* Sequential enrollment and removal, remembering the preceding removal *)

RemoveEnrollInputs ==
  [activity_id : {1, 2}, child_id : ChildIds, status : {"REGISTERED"},
   notes : {"Test participation"}]

NextRemove ==
  \E p \in {"r1"} :
    \/ \E input \in RemoveEnrollInputs : Begin /\ EnrollCall(p, input)
    \/ EnrollActivity(p)
    \/ EnrollChild(p)
    \/ EnrollExisting(p)
    \/ EnrollCount(p)
    \/ EnrollInsert(p)
    \/ \E id \in ParticipationIdInputs : Begin /\ RemoveCall(p, id)
    \/ RemoveDelete(p)
    \/ SeqReturnRemembering(p)

SpecRemove == InitTwoActivities /\ [][NextRemove]_vars

-----------------------------------------------------------------------------
(* Sequential enrollment, cancellation and removal, remembering the row the
   preceding call acted on *)

ReenrollInputs ==
  [activity_id : {1, 2}, child_id : {1, 2}, status : {"REGISTERED"},
   notes : {"Test participation"}]

\* The caller takes the result; the call is remembered with the row it removed
\* or updated, and for a removal whether the row's activity was exactly full.
SeqReturnTarget(p) ==
  /\ Return(p)
  /\ pre' = NoPre
  /\ prevCall' =
       IF frame[p].op = "remove"
       THEN LET rows == {r \in pre.participations : r.id = frame[p].id} IN
              [op   |-> "remove",
               ok   |-> result[p].value,
               rows |-> rows,
               full |-> \E r \in rows : \E a \in pre.activities :
                          /\ a.id = r.activity_id
                          /\ a.max_participants # NULL
                          /\ Cardinality({x \in pre.participations :
                                            x.activity_id = a.id})
                               = a.max_participants]
       ELSE IF frame[p].op = "pstatus"
       THEN [op     |-> "pstatus",
             status |-> frame[p].status,
             rows   |-> IF result[p].kind = "row" THEN {result[p].value} ELSE {}]
       ELSE [op |-> frame[p].op]
  /\ UNCHANGED lastRemoved

NextReenroll ==
  \E p \in {"r1"} :
    \/ \E input \in ReenrollInputs : Begin /\ EnrollCall(p, input)
    \/ EnrollActivity(p)
    \/ EnrollChild(p)
    \/ EnrollExisting(p)
    \/ EnrollCount(p)
    \/ EnrollInsert(p)
    \/ \E id \in ParticipationIdInputs, status \in {"CANCELLED"} :
         Begin /\ UpdateParticipationStatusCall(p, id, status)
    \/ UpdateParticipationStatusWrite(p)
    \/ \E id \in ParticipationIdInputs : Begin /\ RemoveCall(p, id)
    \/ RemoveDelete(p)
    \/ SeqReturnTarget(p)

SpecReenroll == InitTwoActivities /\ [][NextReenroll]_vars

-----------------------------------------------------------------------------
(* Sequential enrollment, removal and the two read handlers *)

QueryEnrollInputs ==
  [activity_id : {1, 2}, child_id : {1, 2}, status : {"REGISTERED"},
   notes : {"Test participation"}]

NextQuery ==
  \E p \in {"r1"} :
    \/ \E input \in QueryEnrollInputs : Begin /\ EnrollCall(p, input)
    \/ EnrollActivity(p)
    \/ EnrollChild(p)
    \/ EnrollExisting(p)
    \/ EnrollCount(p)
    \/ EnrollInsert(p)
    \/ \E id \in ParticipationIdInputs : Begin /\ RemoveCall(p, id)
    \/ RemoveDelete(p)
    \/ \E id \in {1, 2, NoSuchId} : Begin /\ GetByActivityCall(p, id)
    \/ GetByActivitySelect(p)
    \/ \E id \in {1, 2, NoSuchId} : Begin /\ GetByChildCall(p, id)
    \/ GetByChildSelect(p)
    \/ SeqReturnRemembering(p)

SpecQuery == InitTwoActivities /\ [][NextQuery]_vars

-----------------------------------------------------------------------------
(* Sequential status changes and updates over the two activities *)

\* The partial input with no field present.
NoFields ==
  [title |-> UNDEFS, description |-> UNDEFS, activity_date |-> UNDEF,
   location |-> UNDEFS, max_participants |-> UNDEF, created_by |-> UNDEF]

StatusEnrollInputs ==
  [activity_id : {1, 2}, child_id : {1}, status : {"REGISTERED"},
   notes : {"Test participation"}]

StatusUpdateInputs ==
  {[NoFields EXCEPT !.title = "Updated Activity"],
   [NoFields EXCEPT !.created_by = 1],
   [NoFields EXCEPT !.created_by = NoSuchId]}

NextStatus ==
  \E p \in {"r1"} :
    \/ \E input \in StatusEnrollInputs : Begin /\ EnrollCall(p, input)
    \/ EnrollActivity(p)
    \/ EnrollChild(p)
    \/ EnrollExisting(p)
    \/ EnrollCount(p)
    \/ EnrollInsert(p)
    \/ \E id \in ParticipationIdInputs, status \in ParticipationStatus :
         Begin /\ UpdateParticipationStatusCall(p, id, status)
    \/ UpdateParticipationStatusWrite(p)
    \/ \E id \in ActivityIdInputs, input \in StatusUpdateInputs :
         Begin /\ UpdateActivityCall(p, id, input)
    \/ UpdateActivityGet(p)
    \/ UpdateActivityStaff(p)
    \/ UpdateActivityWrite(p)
    \/ \E id \in ActivityIdInputs, status \in {"ONGOING"} :
         Begin /\ UpdateActivityStatusCall(p, id, status)
    \/ UpdateActivityStatusGet(p)
    \/ UpdateActivityStatusWrite(p)
    \/ SeqReturnRecording(p)

SpecStatus == InitTwoActivities /\ [][NextStatus]_vars

-----------------------------------------------------------------------------
(* Sequential updates of activity 1 while time passes *)

\* Time passes.
Tick ==
  /\ clock < MaxClock
  /\ clock' = clock + 1
  /\ UNCHANGED <<activities, participations, nextActivityId, nextParticipationId,
                 userStore, pc, frame, result, history>>

UpdateEnrollInputs ==
  [activity_id : {1}, child_id : {1}, status : {"REGISTERED"},
   notes : {"Test participation"}]

\* Partial inputs: one field, three fields, a field with an owner.
UpdateInputs ==
  {[NoFields EXCEPT !.title = "New Title"],
   [NoFields EXCEPT !.max_participants = NULL],
   [NoFields EXCEPT !.title = "Updated Activity",
                    !.description = "Updated description",
                    !.location = "New Location"],
   [NoFields EXCEPT !.title = "New Title", !.created_by = NoSuchId],
   [NoFields EXCEPT !.description = "", !.created_by = 1]}

UpdateIdInputs == {1, NoSuchId}

NextUpdate ==
  \/ Tick
  \/ \E p \in {"r1"} :
       \/ \E input \in UpdateEnrollInputs : Begin /\ EnrollCall(p, input)
       \/ EnrollActivity(p)
       \/ EnrollChild(p)
       \/ EnrollExisting(p)
       \/ EnrollCount(p)
       \/ EnrollInsert(p)
       \/ \E id \in UpdateIdInputs, input \in UpdateInputs :
            Begin /\ UpdateActivityCall(p, id, input)
       \/ UpdateActivityGet(p)
       \/ UpdateActivityStaff(p)
       \/ UpdateActivityWrite(p)
       \/ \E id \in UpdateIdInputs, status \in ActivityStatus :
            Begin /\ UpdateActivityStatusCall(p, id, status)
       \/ UpdateActivityStatusGet(p)
       \/ UpdateActivityStatusWrite(p)
       \/ SeqReturn(p)

SpecUpdate == InitTwoActivities /\ [][NextUpdate]_vars

-----------------------------------------------------------------------------
(* Sequential creation, update and status change, from an empty store *)

\* The tests' input and the minimal one, with or without a stray status key.
CreateInputs ==
  [title : {"Test Activity"}, description : {UNDEFS, "A test activity for children"},
   activity_date : {1}, location : {UNDEFS}, max_participants : {UNDEF},
   created_by : {1, NoSuchId}, status : {UNDEFS, "COMPLETED"}]

CreateUpdateInputs ==
  {[NoFields EXCEPT !.title = "New Title"],
   [NoFields EXCEPT !.created_by = NoSuchId]}

NextCreate ==
  \E p \in {"r1"} :
    \/ \E input \in CreateInputs : Begin /\ CreateActivityCall(p, input)
    \/ CreateActivityStaff(p)
    \/ CreateActivityInsert(p)
    \/ \E id \in ActivityIdInputs, input \in CreateUpdateInputs :
         Begin /\ UpdateActivityCall(p, id, input)
    \/ UpdateActivityGet(p)
    \/ UpdateActivityStaff(p)
    \/ UpdateActivityWrite(p)
    \/ \E id \in ActivityIdInputs, status \in ActivityStatus :
         Begin /\ UpdateActivityStatusCall(p, id, status)
    \/ UpdateActivityStatusGet(p)
    \/ UpdateActivityStatusWrite(p)
    \/ SeqReturn(p)

SpecCreate == InitEmpty /\ [][NextCreate]_vars

-----------------------------------------------------------------------------
(* Rounds of up to two overlapping enrollments *)

ParallelInputs ==
  [activity_id : {1, 2, NoSuchId}, child_id : {1, 2, NoSuchId},
   status : {"REGISTERED"}, notes : {UNDEFS}]

\* A request arrives; the first of a round finds the store at rest.
ParallelCall(p, input) ==
  /\ EnrollCall(p, input)
  /\ pre' = IF \A q \in Procs : pc[q] = "idle" THEN Snapshot ELSE pre
  /\ UNCHANGED <<lastRemoved, prevCall>>

\* The caller, awaiting every request it sent, takes the settled results.
RoundEnd ==
  /\ \A q \in Procs : pc[q] \in {"idle", "done"}
  /\ \E q \in Procs : pc[q] = "done"
  /\ pc' = [q \in Procs |-> "idle"]
  /\ frame' = [q \in Procs |-> NoFrame]
  /\ result' = [q \in Procs |-> NoResult]
  /\ pre' = NoPre
  /\ UNCHANGED <<store, lastRemoved, prevCall>>

NextParallel ==
  \/ RoundEnd
  \/ \E p \in Procs :
       \/ \E input \in ParallelInputs : ParallelCall(p, input)
       \/ EnrollActivity(p)
       \/ EnrollChild(p)
       \/ EnrollExisting(p)
       \/ EnrollCount(p)
       \/ EnrollInsert(p)

SpecParallel == InitTwoActivities /\ [][NextParallel]_vars

-----------------------------------------------------------------------------
(* Seeding of the first user, one call at a time *)

\* No user, no activity, nobody enrolled.
InitNoUsers ==
  /\ activities = {}
  /\ participations = {}
  /\ nextActivityId = 1
  /\ nextParticipationId = 1
  /\ clock = 0
  /\ users = {}
  /\ nextUserId = 1
  /\ InitRequests

\* The environment of the seeding tests: both variables set, or both deleted.
SeedEnvs ==
  {[DEFAULT_ADMIN_EMAIL |-> "admin@test.com", DEFAULT_ADMIN_PASSWORD |-> "testpassword123"],
   [DEFAULT_ADMIN_EMAIL |-> UNDEFS, DEFAULT_ADMIN_PASSWORD |-> UNDEFS]}

SeedUserInputs ==
  [email : {"existing@test.com", "admin@test.com"}, password : {"password123"},
   role : {"DONOR"}]

\* A call begins when no other is in flight; the users table is remembered.
BeginSeed ==
  /\ \A q \in Procs : pc[q] = "idle"
  /\ pre' = [users |-> users]
  /\ UNCHANGED <<lastRemoved, prevCall>>

\* The caller takes the result; the call is remembered, with whether only
\* seeding calls have run since the users table was empty.
SeqReturnSeed(p) ==
  /\ Return(p)
  /\ pre' = NoPre
  /\ prevCall' = [op |-> frame[p].op,
                  seedsOnly |-> /\ frame[p].op = "seed"
                                /\ \/ pre.users = {}
                                   \/ prevCall.op = "seed" /\ prevCall.seedsOnly]
  /\ UNCHANGED lastRemoved

NextSeed ==
  \/ Tick
  \/ \E p \in {"r1"} :
       \/ \E env \in SeedEnvs : BeginSeed /\ SeedCall(p, env)
       \/ SeedSelect(p)
       \/ SeedHash(p)
       \/ SeedInsert(p)
       \/ \E input \in SeedUserInputs : BeginSeed /\ CreateUserCall(p, input)
       \/ CreateUserHash(p)
       \/ CreateUserInsert(p)
       \/ SeqReturnSeed(p)

SpecSeed == InitNoUsers /\ [][NextSeed]_vars

-----------------------------------------------------------------------------
(* Sequential enrollment and status changes while time passes *)

TouchEnrollInputs ==
  [activity_id : {1, 2}, child_id : {1}, status : {"REGISTERED"},
   notes : {"Test participation", UNDEFS}]

NextTouch ==
  \/ Tick
  \/ \E p \in {"r1"} :
       \/ \E input \in TouchEnrollInputs : Begin /\ EnrollCall(p, input)
       \/ EnrollActivity(p)
       \/ EnrollChild(p)
       \/ EnrollExisting(p)
       \/ EnrollCount(p)
       \/ EnrollInsert(p)
       \/ \E id \in ParticipationIdInputs, status \in {"ATTENDED", "REGISTERED"} :
            Begin /\ UpdateParticipationStatusCall(p, id, status)
       \/ UpdateParticipationStatusWrite(p)
       \/ SeqReturn(p)

SpecTouch == InitTwoActivities /\ [][NextTouch]_vars

-----------------------------------------------------------------------------
(* Creation and update of activities through the router, any limit asked *)

LimitValues == {UNDEF, NULL, NegativeLimit, 0, 1, 20}

LimitCreateInputs ==
  [title : {"Test Activity"}, description : {UNDEFS}, activity_date : {1},
   location : {UNDEFS}, max_participants : LimitValues, created_by : {1}]

LimitUpdateInputs == {[NoFields EXCEPT !.max_participants = x] : x \in LimitValues}

NextLimit ==
  \E p \in {"r1"} :
    \/ \E raw \in LimitCreateInputs : Begin /\ CreateActivityRequest(p, raw)
    \/ CreateActivityStaff(p)
    \/ CreateActivityInsert(p)
    \/ \E id \in ActivityIdInputs, raw \in LimitUpdateInputs :
         Begin /\ UpdateActivityRequest(p, id, raw)
    \/ UpdateActivityGet(p)
    \/ UpdateActivityWrite(p)
    \/ SeqReturn(p)

SpecLimit == InitEmpty /\ [][NextLimit]_vars

-----------------------------------------------------------------------------
(* Every writing handler, two requests interleaving, from an empty store *)

RefCreateInputs ==
  [title : {"Test Activity"}, description : {UNDEFS}, activity_date : {1},
   location : {UNDEFS}, max_participants : {UNDEF}, created_by : {1, NoSuchId}]

RefUpdateInputs ==
  {[NoFields EXCEPT !.created_by = 1], [NoFields EXCEPT !.created_by = NoSuchId]}

RefEnrollInputs ==
  [activity_id : {1, NoSuchId}, child_id : {1, NoSuchId}, status : {"REGISTERED"},
   notes : {UNDEFS}]

RefIds == {1, NoSuchId}

NextRefs ==
  \E p \in Procs :
    \/ \E input \in RefCreateInputs : CreateActivityCall(p, input) /\ UNCHANGED history
    \/ CreateActivityStaff(p)
    \/ CreateActivityInsert(p)
    \/ \E id \in RefIds, input \in RefUpdateInputs :
         UpdateActivityCall(p, id, input) /\ UNCHANGED history
    \/ UpdateActivityGet(p)
    \/ UpdateActivityStaff(p)
    \/ UpdateActivityWrite(p)
    \/ \E id \in RefIds, status \in {"COMPLETED"} :
         UpdateActivityStatusCall(p, id, status) /\ UNCHANGED history
    \/ UpdateActivityStatusGet(p)
    \/ UpdateActivityStatusWrite(p)
    \/ \E input \in RefEnrollInputs : EnrollCall(p, input) /\ UNCHANGED history
    \/ EnrollActivity(p)
    \/ EnrollChild(p)
    \/ EnrollExisting(p)
    \/ EnrollInsert(p)
    \/ \E id \in RefIds, status \in {"CANCELLED"} :
         UpdateParticipationStatusCall(p, id, status) /\ UNCHANGED history
    \/ UpdateParticipationStatusWrite(p)
    \/ \E id \in RefIds : RemoveCall(p, id) /\ UNCHANGED history
    \/ RemoveDelete(p)
    \/ Return(p) /\ UNCHANGED history

SpecRefs == InitEmpty /\ [][NextRefs]_vars

-----------------------------------------------------------------------------
(* Rounds of up to two overlapping enrollments and removals *)

RemoveRaceInputs ==
  [activity_id : {1, 2}, child_id : {1}, status : {"REGISTERED"}, notes : {UNDEFS}]

\* A removal arrives; the first request of a round finds the store at rest.
ParallelRemoveCall(p, id) ==
  /\ RemoveCall(p, id)
  /\ pre' = IF \A q \in Procs : pc[q] = "idle" THEN Snapshot ELSE pre
  /\ UNCHANGED <<lastRemoved, prevCall>>

NextRemoveRace ==
  \/ RoundEnd
  \/ \E p \in Procs :
       \/ \E input \in RemoveRaceInputs : ParallelCall(p, input)
       \/ EnrollActivity(p)
       \/ EnrollChild(p)
       \/ EnrollExisting(p)
       \/ EnrollCount(p)
       \/ EnrollInsert(p)
       \/ \E id \in ParticipationIdInputs : ParallelRemoveCall(p, id)
       \/ RemoveDelete(p)

SpecRemoveRace == InitTwoActivities /\ [][NextRemoveRace]_vars

-----------------------------------------------------------------------------
(* Rounds of up to two overlapping updates of an activity *)

UpdateRaceInputs ==
  {[NoFields EXCEPT !.title = "New Title"],
   [NoFields EXCEPT !.max_participants = NULL, !.location = ""],
   [NoFields EXCEPT !.description = "Updated description", !.created_by = 1],
   [NoFields EXCEPT !.title = "New Title", !.created_by = NoSuchId]}

\* An update arrives; the first request of a round finds the store at rest.
ParallelUpdateCall(p, id, input) ==
  /\ UpdateActivityCall(p, id, input)
  /\ pre' = IF \A q \in Procs : pc[q] = "idle" THEN Snapshot ELSE pre
  /\ UNCHANGED <<lastRemoved, prevCall>>

ParallelStatusCall(p, id, status) ==
  /\ UpdateActivityStatusCall(p, id, status)
  /\ pre' = IF \A q \in Procs : pc[q] = "idle" THEN Snapshot ELSE pre
  /\ UNCHANGED <<lastRemoved, prevCall>>

NextUpdateRace ==
  \/ Tick
  \/ RoundEnd
  \/ \E p \in Procs :
       \/ \E id \in UpdateIdInputs, input \in UpdateRaceInputs :
            ParallelUpdateCall(p, id, input)
       \/ UpdateActivityGet(p)
       \/ UpdateActivityStaff(p)
       \/ UpdateActivityWrite(p)
       \/ \E id \in UpdateIdInputs, status \in {"ONGOING", "COMPLETED"} :
            ParallelStatusCall(p, id, status)
       \/ UpdateActivityStatusGet(p)
       \/ UpdateActivityStatusWrite(p)

SpecUpdateRace == InitTwoActivities /\ [][NextUpdateRace]_vars

-----------------------------------------------------------------------------
(* Vocabulary of the properties *)

\* The request slot the sequential specifications use.
Client == "r1"

IsError(r, e) == r.kind = "error" /\ r.error = e

\* The sequential call of handler op has settled and its result is not yet taken.
Settled(op) == pc[Client] = "done" /\ frame[Client].op = op

RowsOf(rows, activity_id) == {r \in rows : r.activity_id = activity_id}

PairRows(rows, activity_id, child_id) ==
  {r \in rows : r.activity_id = activity_id /\ r.child_id = child_id}

\* The activity with the given id when the call began.
PreActivityById(id) == CHOOSE a \in pre.activities : a.id = id

\* A participation row without its serial id.
WithoutId(r) ==
  [activity_id |-> r.activity_id, child_id |-> r.child_id, status |-> r.status,
   notes |-> r.notes, registered_at |-> r.registered_at, updated_at |-> r.updated_at]

\* Two results that agree except, for a row, on the serial id.
SameOutcome(r, s) ==
  /\ r.kind = s.kind
  /\ r.kind = "error" => r.error = s.error
  /\ r.kind = "row" => WithoutId(r.value) = WithoutId(s.value)

\* The store after running two enrollments one after the other from `pre`.
Serial(first, second) == EnrollAlone(EnrollAlone(pre, first).store, second).store

\* Both requests of a round have settled, on different activities.
BothSettledApart ==
  /\ \A q \in Procs : pc[q] = "done"
  /\ frame["r1"].input.activity_id # frame["r2"].input.activity_id

\* Only seeding calls have run since the users table was empty, this one included.
SeedsOnlySinceEmpty ==
  \/ pre.users = {}
  \/ prevCall.op = "seed" /\ prevCall.seedsOnly

\* The table holds the seeded administrator and nobody else.
OnlyTheAdmin(env) ==
  /\ Cardinality(users) = 1
  /\ \A u \in users : /\ u.role = "ADMIN"
                       /\ u.email = env.DEFAULT_ADMIN_EMAIL
                       /\ u.is_active
                       /\ u.password_hash = PasswordHash(env.DEFAULT_ADMIN_PASSWORD)

\* Request p updated an activity and request q set the status of the same
\* activity in the same round; both have settled and the update returned a row.
UpdatedWhileStatusSet(p, q) ==
  /\ pc[p] = "done"
  /\ pc[q] = "done"
  /\ frame[p].op = "update"
  /\ frame[q].op = "status"
  /\ frame[p].id = frame[q].id
  /\ \E a \in pre.activities : a.id = frame[p].id
  /\ result[p].kind = "row"

\* Both requests of a round are removals of one id, and both have settled.
BothRemovedSameId ==
  /\ \A q \in Procs : pc[q] = "done" /\ frame[q].op = "remove"
  /\ frame["r1"].id = frame["r2"].id

\* The preceding call acted on a row of the pair the enroll input names.
PrevRowOfPair(input) ==
  \E r \in prevCall.rows :
    r.activity_id = input.activity_id /\ r.child_id = input.child_id

\* The named activity had a limit and as many rows as the limit, or more,
\* when the call began.
PreFull(input) ==
  \E a \in pre.activities :
    /\ a.id = input.activity_id
    /\ a.max_participants # NULL
    /\ Cardinality(RowsOf(pre.participations, a.id)) >= a.max_participants

\* The activity an enroll input names, in the store as the call found it.
PreActivity(input) == {a \in pre.activities : a.id = input.activity_id}

-----------------------------------------------------------------------------
(* C1: under interleaved enroll calls on an activity whose max_participants
   is N (not null, never changed), the number of participation rows of that
   activity never exceeds N. *)
C1_CapacityUnderRace ==
  \A a \in activities :
    HasLimit(a) => CountParticipations(a.id) <= a.max_participants

(* C2: after any sequence of sequential createActivity, updateActivity,
   updateActivityStatus, enroll, updateParticipationStatus and
   removeActivityParticipation calls, an activity whose max_participants is
   not null has at most max_participants participation rows. *)
C2_CapacitySequential ==
  \A a \in activities :
    a.max_participants = NULL
      \/ Cardinality(RowsOf(participations, a.id)) <= a.max_participants

(* C3: in every reachable state, interleaved enrolls of the same pair
   included, at most one participation row exists for an
   (activity_id, child_id) pair. *)
C3_UniquePair ==
  \A r1 \in participations, r2 \in participations :
    (r1.activity_id = r2.activity_id /\ r1.child_id = r2.child_id) => r1 = r2

(* C4: when a row of the pair already exists, whatever its status, enroll
   fails with the duplicate-enrollment error and inserts no row. *)
C4_DuplicateRejected ==
  Settled("enroll") =>
    LET input == frame[Client].input IN
      PairRows(pre.participations, input.activity_id, input.child_id) # {}
        => /\ IsError(result[Client], "Duplicate")
           /\ participations = pre.participations

C4_Witness ==
  /\ Settled("enroll")
  /\ \E r \in pre.participations :
       /\ r.activity_id = frame[Client].input.activity_id
       /\ r.child_id = frame[Client].input.child_id
       /\ r.status = "CANCELLED"
  /\ IsError(result[Client], "Duplicate")

(* C5: for an existing activity with a limit and an existing child not yet
   enrolled in it, enroll fails with the capacity-exceeded error exactly
   when the activity's row count is >= max_participants, and succeeds
   otherwise. *)
C5_CapacityIff ==
  Settled("enroll") =>
    LET input == frame[Client].input IN
      \A a \in PreActivity(input) :
        (/\ a.max_participants # NULL
         /\ input.child_id \in ChildIds
         /\ PairRows(pre.participations, input.activity_id, input.child_id) = {})
        => LET full == Cardinality(RowsOf(pre.participations, a.id))
                         >= a.max_participants IN
             /\ full => IsError(result[Client], "CapacityExceeded")
             /\ ~full => result[Client].kind = "row"

C5_Witness ==
  /\ Settled("enroll")
  /\ IsError(result[Client], "CapacityExceeded")
  /\ \E a \in PreActivity(frame[Client].input) :
       /\ a.max_participants = 2
       /\ Cardinality(RowsOf(pre.participations, a.id)) = 2

(* C6: for an activity whose max_participants is null, enroll never fails
   with the capacity-exceeded error, however many rows the activity has. *)
C6_UnlimitedNeverFull ==
  Settled("enroll") =>
    \A a \in PreActivity(frame[Client].input) :
      a.max_participants = NULL => ~IsError(result[Client], "CapacityExceeded")

C6_Witness ==
  /\ Settled("enroll")
  /\ result[Client].kind = "row"
  /\ \E a \in PreActivity(frame[Client].input) :
       /\ a.max_participants = NULL
       /\ Cardinality(RowsOf(pre.participations, a.id)) >= 1

(* C7: enroll with an activity_id and a child_id that both do not exist
   fails with the activity-not-found error, not the child-not-found error. *)
C7_ActivityCheckedFirst ==
  Settled("enroll") =>
    LET input == frame[Client].input IN
      (PreActivity(input) = {} /\ input.child_id \notin ChildIds)
        => IsError(result[Client], "ActivityNotFound")

C7_Witness ==
  /\ Settled("enroll")
  /\ frame[Client].input.activity_id = NoSuchId
  /\ frame[Client].input.child_id = NoSuchId
  /\ IsError(result[Client], "ActivityNotFound")

(* C8: an enroll that fails (activity not found, child not found, duplicate,
   capacity exceeded) leaves the participation rows and the activity rows
   exactly as they were before the call. *)
C8_FailedEnrollWritesNothing ==
  (Settled("enroll") /\ result[Client].kind = "error") =>
    /\ participations = pre.participations
    /\ activities = pre.activities
    /\ result[Client].error \in
         {"ActivityNotFound", "ChildNotFound", "Duplicate", "CapacityExceeded"}

C8_Witness ==
  /\ Settled("enroll")
  /\ IsError(result[Client], "CapacityExceeded")
  /\ participations # {}
  /\ participations = pre.participations

(* C9: a successful enroll adds exactly one row, carrying the caller's
   activity_id, child_id and status, returns that row, and leaves every row
   that existed before unchanged. *)
C9_SuccessfulEnrollAddsOneRow ==
  (Settled("enroll") /\ result[Client].kind = "row") =>
    LET input == frame[Client].input
        row == result[Client].value IN
      /\ row \notin pre.participations
      /\ \A r \in pre.participations : r.id # row.id
      /\ participations = pre.participations \cup {row}
      /\ row.activity_id = input.activity_id
      /\ row.child_id = input.child_id
      /\ row.status = input.status

C9_Witness ==
  /\ Settled("enroll")
  /\ result[Client].kind = "row"
  /\ frame[Client].input.status = "ATTENDED"
  /\ result[Client].value.status = "ATTENDED"
  /\ pre.participations # {}

(* C10: removeActivityParticipation on the id of an existing row returns
   {success: true}; called again on that id right after, it returns
   {success: false}; on an id that never existed it returns
   {success: false}; it never throws. *)
C10_RemoveTwice ==
  Settled("remove") =>
    LET id == frame[Client].id IN
      /\ result[Client].kind = "success"
      /\ (\E r \in pre.participations : r.id = id) => result[Client].value = TRUE
      /\ lastRemoved = id => result[Client].value = FALSE
      /\ id >= pre.nextParticipationId => result[Client].value = FALSE

C10_Witness ==
  /\ Settled("remove")
  /\ lastRemoved = frame[Client].id
  /\ result[Client].kind = "success"
  /\ result[Client].value = FALSE

(* C11: after removeActivityParticipation(id) deleted a row, the row is gone
   from the store: neither getParticipationsByActivityId nor
   getParticipationsByChildId returns a row with that id, and every other
   participation row is as it was. *)
C11_RemovedRowGone ==
  /\ (Settled("remove") /\ result[Client].value = TRUE) =>
       /\ \E r \in pre.participations : r.id = frame[Client].id
       /\ participations = {r \in pre.participations : r.id # frame[Client].id}
  /\ ((Settled("getByActivity") \/ Settled("getByChild")) /\ lastRemoved # NULL) =>
       \A r \in result[Client].value : r.id # lastRemoved

C11_Witness ==
  /\ Settled("getByActivity")
  /\ lastRemoved # NULL
  /\ result[Client].value # {}
  /\ \A r \in result[Client].value : r.id # lastRemoved

(* C19: getParticipationsByActivityId(a) returns exactly the rows whose
   activity_id is a, getParticipationsByChildId(c) exactly those whose
   child_id is c; each returns an empty sequence, without error, when no row
   matches (the activity or child may not exist), and neither changes the
   store. *)
C19_ReadsAreExactProjections ==
  /\ Settled("getByActivity") =>
       /\ result[Client].kind = "rows"
       /\ result[Client].value = RowsOf(pre.participations, frame[Client].id)
       /\ participations = pre.participations
       /\ activities = pre.activities
  /\ Settled("getByChild") =>
       /\ result[Client].kind = "rows"
       /\ result[Client].value =
            {r \in pre.participations : r.child_id = frame[Client].id}
       /\ participations = pre.participations
       /\ activities = pre.activities

C19_Witness ==
  /\ Settled("getByActivity")
  /\ frame[Client].id = 2
  /\ result[Client].value # {}
  /\ result[Client].value # participations

\* The reads of an id no table holds return the empty sequence.
C19_WitnessEmpty ==
  /\ Settled("getByChild")
  /\ frame[Client].id = NoSuchId
  /\ result[Client].kind = "rows"
  /\ result[Client].value = {}
  /\ participations # {}

(* C12: for an existing participation row and any statuses X and Y,
   updateParticipationStatus(id, X) followed by
   updateParticipationStatus(id, Y) both return the row, whose status is X
   after the first call and Y after the second. *)
C12_AnyStatusAfterAnyStatus ==
  Settled("pstatus") =>
    LET id == frame[Client].id IN
      /\ (\E r \in pre.participations : r.id = id) =>
           /\ result[Client].kind = "row"
           /\ result[Client].value.id = id
           /\ result[Client].value.status = frame[Client].status
           /\ result[Client].value \in participations
      /\ (prevCall.op = "pstatus" /\ prevCall.id = id /\ prevCall.ok) =>
           /\ \E r \in pre.participations : r.id = id /\ r.status = prevCall.status
           /\ result[Client].kind = "row"
           /\ \E r \in participations : r.id = id /\ r.status = frame[Client].status

C12_Witness ==
  /\ Settled("pstatus")
  /\ prevCall.op = "pstatus"
  /\ prevCall.id = frame[Client].id
  /\ prevCall.ok
  /\ prevCall.status = "CANCELLED"
  /\ frame[Client].status = "REGISTERED"
  /\ result[Client].kind = "row"
  /\ result[Client].value.status = "REGISTERED"

(* C16: updateActivity, updateActivityStatus and updateParticipationStatus
   called with an id that does not exist return null without throwing and
   leave every activity row and every participation row unchanged. *)
C16_MissingIdReturnsNull ==
  /\ ((Settled("update") \/ Settled("status"))
        /\ \A a \in pre.activities : a.id # frame[Client].id) =>
       /\ result[Client].kind = "null"
       /\ activities = pre.activities
       /\ participations = pre.participations
  /\ (Settled("pstatus")
        /\ \A r \in pre.participations : r.id # frame[Client].id) =>
       /\ result[Client].kind = "null"
       /\ activities = pre.activities
       /\ participations = pre.participations

C16_Witness ==
  /\ Settled("update")
  /\ frame[Client].id = NoSuchId
  /\ frame[Client].input.created_by = NoSuchId
  /\ result[Client].kind = "null"
  /\ participations # {}

C16_WitnessParticipation ==
  /\ Settled("pstatus")
  /\ frame[Client].id = NoSuchId
  /\ result[Client].kind = "null"
  /\ participations # {}

(* C13: for an existing activity in any status and any target status S,
   updateActivityStatus(id, S) returns the activity and its status afterwards
   is S; no transition is rejected, out of COMPLETED or CANCELLED included. *)
C13_AnyActivityStatusReachable ==
  (Settled("status") /\ \E a \in pre.activities : a.id = frame[Client].id) =>
    /\ result[Client].kind = "row"
    /\ result[Client].value.id = frame[Client].id
    /\ result[Client].value.status = frame[Client].status
    /\ result[Client].value \in activities
    /\ \A a \in activities : a.id = frame[Client].id => a.status = frame[Client].status

C13_Witness ==
  /\ Settled("status")
  /\ \E a \in pre.activities :
       a.id = frame[Client].id /\ a.status \in {"COMPLETED", "CANCELLED"}
  /\ frame[Client].status = "PLANNED"
  /\ result[Client].kind = "row"
  /\ result[Client].value.status = "PLANNED"

(* C17: updateActivity on an existing activity with a created_by that
   references no staff record fails with the staff-not-found error before any
   write: the activity row, the other supplied fields included, and every
   other row stay as they were. *)
C17_BadOwnerWritesNothing ==
  (/\ Settled("update")
   /\ \E a \in pre.activities : a.id = frame[Client].id
   /\ frame[Client].input.created_by # UNDEF
   /\ SelectStaff(frame[Client].input.created_by) = {}) =>
    /\ IsError(result[Client], "StaffNotFound")
    /\ activities = pre.activities
    /\ participations = pre.participations

C17_Witness ==
  /\ Settled("update")
  /\ frame[Client].id = 1
  /\ frame[Client].input.created_by = NoSuchId
  /\ frame[Client].input.title # UNDEFS
  /\ frame[Client].input.title # PreActivityById(1).title
  /\ IsError(result[Client], "StaffNotFound")
  /\ participations # {}

(* C18: a successful updateActivity changes only the fields present in the
   partial input and updated_at: absent fields keep their value, the status
   is not altered, and no other activity row or participation row changes. *)
C18_UpdateFrame ==
  (Settled("update") /\ result[Client].kind = "row") =>
    LET input == frame[Client].input
        old   == PreActivityById(frame[Client].id)
        new   == result[Client].value
    IN  /\ \E a \in pre.activities : a.id = frame[Client].id
        /\ activities = (pre.activities \ {old}) \cup {new}
        /\ participations = pre.participations
        /\ new.id = old.id
        /\ new.status = old.status
        /\ new.created_at = old.created_at
        /\ input.title = UNDEFS => new.title = old.title
        /\ input.description = UNDEFS => new.description = old.description
        /\ input.activity_date = UNDEF => new.activity_date = old.activity_date
        /\ input.location = UNDEFS => new.location = old.location
        /\ input.max_participants = UNDEF => new.max_participants = old.max_participants
        /\ input.created_by = UNDEF => new.created_by = old.created_by

C18_Witness ==
  /\ Settled("update")
  /\ result[Client].kind = "row"
  /\ frame[Client].input.title # UNDEFS
  /\ frame[Client].input.description = UNDEFS
  /\ result[Client].value.title # PreActivityById(frame[Client].id).title
  /\ result[Client].value.description = "Updated description"
  /\ result[Client].value.status = "COMPLETED"
  /\ result[Client].value.updated_at > PreActivityById(frame[Client].id).updated_at
  /\ participations # {}

(* C14: every activity created by createActivity has status PLANNED right
   after creation, whatever the input; afterwards the status of an activity
   changes only in the write of an updateActivityStatus call. *)
C14_PlannedUntilStatusCall ==
  /\ [](Settled("create") /\ result[Client].kind = "row" =>
          /\ result[Client].value.status = "PLANNED"
          /\ result[Client].value \in activities)
  /\ [][/\ \A b \in activities' :
             (\A a \in activities : a.id # b.id) => b.status = "PLANNED"
        /\ \A a \in activities : \A b \in activities' :
             (a.id = b.id /\ a.status # b.status) =>
               \E p \in Procs : pc[p] = "status_write" /\ frame[p].id = a.id]_vars

C14_Witness ==
  /\ Settled("create")
  /\ frame[Client].input.status = "COMPLETED"
  /\ result[Client].kind = "row"
  /\ result[Client].value.status = "PLANNED"
  /\ \E a \in pre.activities : a.status = "CANCELLED" /\ a.title = "New Title"

(* C15: createActivity with a created_by that references no staff record
   fails with the staff-not-found error and inserts no activity row. *)
C15_CreateBadOwner ==
  (Settled("create") /\ SelectStaff(frame[Client].input.created_by) = {}) =>
    /\ IsError(result[Client], "StaffNotFound")
    /\ activities = pre.activities
    /\ participations = pre.participations

C15_Witness ==
  /\ Settled("create")
  /\ frame[Client].input.created_by = NoSuchId
  /\ IsError(result[Client], "StaffNotFound")
  /\ activities # {}
  /\ nextActivityId <= MaxActivityId

(* C20, as stated: for overlapping enrollments on different activities, each
   call succeeds or fails as it does when run alone from the starting store,
   and the final store equals the result of both serial orders. *)
C20_EqualsBothSerialOrders ==
  BothSettledApart =>
    LET i1 == frame["r1"].input
        i2 == frame["r2"].input
    IN  /\ SameOutcome(result["r1"], EnrollAlone(pre, i1).result)
        /\ SameOutcome(result["r2"], EnrollAlone(pre, i2).result)
        /\ Snapshot = Serial(i1, i2)
        /\ Snapshot = Serial(i2, i1)

(* C20, amended: for overlapping enrollments on different activities, each
   call succeeds or fails as it does when run alone from the starting store
   (same error, or the same row up to its serial id); the final store is the
   store of one of the two serial orders, and the two serial orders differ
   from it at most in which row holds which serial id. A request that runs
   with nothing else in the round gives exactly its alone result. *)
C20_IndependentUpToIds ==
  /\ BothSettledApart =>
       LET i1 == frame["r1"].input
           i2 == frame["r2"].input
       IN  /\ SameOutcome(result["r1"], EnrollAlone(pre, i1).result)
           /\ SameOutcome(result["r2"], EnrollAlone(pre, i2).result)
           /\ Snapshot \in {Serial(i1, i2), Serial(i2, i1)}
           /\ \A s \in {Serial(i1, i2), Serial(i2, i1)} :
                /\ {WithoutId(r) : r \in s.participations}
                     = {WithoutId(r) : r \in participations}
                /\ {r.id : r \in s.participations} = {r.id : r \in participations}
                /\ s.nextParticipationId = nextParticipationId
                /\ s.activities = activities
  /\ \A p \in Procs :
       (pc[p] = "done" /\ \A q \in Procs \ {p} : pc[q] = "idle") =>
         /\ result[p] = EnrollAlone(pre, frame[p].input).result
         /\ Snapshot = EnrollAlone(pre, frame[p].input).store

\* Both succeed and the second request drew the smaller id.
C20_Witness ==
  /\ BothSettledApart
  /\ result["r1"].kind = "row"
  /\ result["r2"].kind = "row"
  /\ result["r2"].value.id < result["r1"].value.id
  /\ pre.participations # {}

\* One of the two is rejected for capacity while the other succeeds.
C20_WitnessRejected ==
  /\ BothSettledApart
  /\ IsError(result["r1"], "CapacityExceeded")
  /\ result["r2"].kind = "row"

(* C21: seedDefaultAdmin is idempotent over sequential calls: starting from
   an empty users table, any number of successive calls with the environment
   set leaves exactly one user, the ADMIN with the configured email; a call
   made when at least one user exists inserts nothing. *)
C21_SeedIdempotent ==
  Settled("seed") =>
    /\ pre.users # {} =>
         /\ users = pre.users
         /\ result[Client].kind = "void"
    /\ (pre.users = {} /\ ~EnvMissing(frame[Client].env)) =>
         /\ result[Client].kind = "void"
         /\ OnlyTheAdmin(frame[Client].env)
    /\ (SeedsOnlySinceEmpty /\ result[Client].kind = "void") =>
         \E env \in SeedEnvs : ~EnvMissing(env) /\ OnlyTheAdmin(env)

\* The second of two successive seeding calls finds the administrator.
C21_Witness ==
  /\ Settled("seed")
  /\ prevCall.op = "seed"
  /\ prevCall.seedsOnly
  /\ pre.users # {}
  /\ users = pre.users
  /\ OnlyTheAdmin(frame[Client].env)

(* C22: the error of a failing enroll is that of the first failing check in
   the order activity exists, child exists, duplicate, capacity: a missing
   child enrolled into a full activity gets child-not-found, an enrolled
   child re-enrolled into a full activity gets duplicate-enrollment, and
   neither gets capacity-exceeded. *)
C22_FirstFailingCheck ==
  Settled("enroll") =>
    LET input    == frame[Client].input
        noAct    == PreActivity(input) = {}
        noChild  == input.child_id \notin ChildIds
        enrolled == PairRows(pre.participations, input.activity_id, input.child_id) # {}
    IN  /\ noAct => IsError(result[Client], "ActivityNotFound")
        /\ (~noAct /\ noChild) => IsError(result[Client], "ChildNotFound")
        /\ (~noAct /\ ~noChild /\ enrolled) => IsError(result[Client], "Duplicate")
        /\ (~noAct /\ ~noChild /\ ~enrolled /\ PreFull(input)) =>
             IsError(result[Client], "CapacityExceeded")
        /\ (~noAct /\ ~noChild /\ ~enrolled /\ ~PreFull(input)) =>
             result[Client].kind = "row"

\* An enrolled child is enrolled again into the activity, which is full.
C22_Witness ==
  /\ Settled("enroll")
  /\ PreFull(frame[Client].input)
  /\ PairRows(pre.participations, frame[Client].input.activity_id,
              frame[Client].input.child_id) # {}
  /\ IsError(result[Client], "Duplicate")

\* A child that does not exist is enrolled into a full activity.
C22_WitnessChild ==
  /\ Settled("enroll")
  /\ PreFull(frame[Client].input)
  /\ frame[Client].input.child_id = NoSuchId
  /\ IsError(result[Client], "ChildNotFound")

(* C23: updateParticipationStatus never changes the number of participation
   rows of any activity and never answers with a capacity error; rows of
   every status count toward the limit, so an activity with N = max rows,
   all of them CANCELLED, still rejects the enroll of a new child with
   capacity-exceeded. *)
C23_CancelledRowsCount ==
  /\ Settled("pstatus") =>
       /\ result[Client].kind \in {"row", "null"}
       /\ \A a \in pre.activities :
            Cardinality(RowsOf(participations, a.id))
              = Cardinality(RowsOf(pre.participations, a.id))
       /\ {r.id : r \in participations} = {r.id : r \in pre.participations}
  /\ Settled("enroll") =>
       LET input == frame[Client].input IN
         (/\ PreFull(input)
          /\ input.child_id \in ChildIds
          /\ PairRows(pre.participations, input.activity_id, input.child_id) = {}
          /\ \A r \in RowsOf(pre.participations, input.activity_id) :
               r.status = "CANCELLED")
         => /\ IsError(result[Client], "CapacityExceeded")
            /\ participations = pre.participations

C23_Witness ==
  /\ Settled("enroll")
  /\ PreFull(frame[Client].input)
  /\ RowsOf(pre.participations, frame[Client].input.activity_id) # {}
  /\ \A r \in RowsOf(pre.participations, frame[Client].input.activity_id) :
       r.status = "CANCELLED"
  /\ frame[Client].input.child_id \in ChildIds
  /\ IsError(result[Client], "CapacityExceeded")

\* A cancelled row of a full activity is set back to REGISTERED.
C23_WitnessStatus ==
  /\ Settled("pstatus")
  /\ frame[Client].status = "REGISTERED"
  /\ result[Client].kind = "row"
  /\ PreFull([activity_id |-> result[Client].value.activity_id])
  /\ \E r \in pre.participations : r.id = frame[Client].id /\ r.status = "CANCELLED"

(* C24: capacity is the current row count, not a stored counter: when an
   activity is full (count = max_participants) and one of its rows is
   removed, the next enroll of an existing, not yet enrolled child into it
   succeeds; the removal itself inserts no row (no waitlist, no retry of an
   enroll rejected earlier). *)
C24_RemovalFreesAPlace ==
  /\ Settled("enroll") =>
       LET input == frame[Client].input IN
         (/\ prevCall.op = "remove"
          /\ prevCall.ok
          /\ prevCall.full
          /\ \E r \in prevCall.rows : r.activity_id = input.activity_id
          /\ input.child_id \in ChildIds
          /\ PairRows(pre.participations, input.activity_id, input.child_id) = {})
         => /\ result[Client].kind = "row"
            /\ result[Client].value \in participations
  /\ Settled("remove") =>
       /\ participations \subseteq pre.participations
       /\ Cardinality(pre.participations \ participations) <= 1

\* The activity was full, a row was removed, and another child gets the place.
C24_Witness ==
  /\ Settled("enroll")
  /\ prevCall.op = "remove"
  /\ prevCall.ok
  /\ prevCall.full
  /\ \E r \in prevCall.rows :
       /\ r.activity_id = frame[Client].input.activity_id
       /\ r.child_id # frame[Client].input.child_id
  /\ result[Client].kind = "row"

(* C25: after removeActivityParticipation deletes the row of a pair
   (activity, child), a new enroll of the pair succeeds, capacity permitting;
   after updateParticipationStatus(id, CANCELLED) the row is kept and a new
   enroll of the pair fails with duplicate-enrollment. *)
C25_RemoveVersusCancel ==
  Settled("enroll") =>
    LET input == frame[Client].input IN
      /\ (prevCall.op = "remove" /\ prevCall.ok /\ PrevRowOfPair(input)) =>
           /\ PairRows(pre.participations, input.activity_id, input.child_id) = {}
           /\ ~IsError(result[Client], "Duplicate")
           /\ ~PreFull(input) => result[Client].kind = "row"
      /\ (prevCall.op = "pstatus" /\ prevCall.status = "CANCELLED"
            /\ PrevRowOfPair(input)) =>
           /\ \E r \in PairRows(pre.participations, input.activity_id, input.child_id) :
                r.status = "CANCELLED"
           /\ IsError(result[Client], "Duplicate")
           /\ participations = pre.participations

\* The pair is enrolled again right after its row was removed.
C25_Witness ==
  /\ Settled("enroll")
  /\ prevCall.op = "remove"
  /\ prevCall.ok
  /\ PrevRowOfPair(frame[Client].input)
  /\ result[Client].kind = "row"

\* The pair is enrolled again right after its row was cancelled.
C25_WitnessCancelled ==
  /\ Settled("enroll")
  /\ prevCall.op = "pstatus"
  /\ prevCall.status = "CANCELLED"
  /\ PrevRowOfPair(frame[Client].input)
  /\ IsError(result[Client], "Duplicate")

(* C26: a successful updateParticipationStatus changes only the status and
   updated_at of the row with the id: its id, activity_id, child_id, notes
   and registered_at stay, and no other participation row and no activity
   row changes. *)
C26_StatusUpdateFrame ==
  (Settled("pstatus") /\ result[Client].kind = "row") =>
    LET new == result[Client].value IN
      \E old \in pre.participations :
        /\ old.id = frame[Client].id
        /\ new.id = old.id
        /\ new.activity_id = old.activity_id
        /\ new.child_id = old.child_id
        /\ new.notes = old.notes
        /\ new.registered_at = old.registered_at
        /\ new.status = frame[Client].status
        /\ new.updated_at >= old.updated_at
        /\ participations = (pre.participations \ {old}) \cup {new}
        /\ activities = pre.activities

\* Time has passed since the row was registered, and another row exists.
C26_Witness ==
  /\ Settled("pstatus")
  /\ result[Client].kind = "row"
  /\ result[Client].value.status = "ATTENDED"
  /\ result[Client].value.updated_at > result[Client].value.registered_at
  /\ \E old \in pre.participations :
       /\ old.id = frame[Client].id
       /\ old.status = "REGISTERED"
       /\ old.updated_at < result[Client].value.updated_at
  /\ Cardinality(participations) = 2

(* C27: in every state reached through createActivity and updateActivity,
   each activity's stored max_participants is null or a positive integer;
   no call leaves an activity with a limit of 0 or below. *)
C27_LimitNullOrPositive ==
  /\ \A a \in activities : a.max_participants = NULL \/ a.max_participants > 0
  /\ ((Settled("create") \/ Settled("update"))
        /\ frame[Client].input.max_participants \in {0, NegativeLimit}) =>
       /\ IsError(result[Client], "BadRequest")
       /\ activities = pre.activities

\* An update asks for a limit below zero on an activity that has a limit.
C27_Witness ==
  /\ Settled("update")
  /\ frame[Client].input.max_participants = NegativeLimit
  /\ IsError(result[Client], "BadRequest")
  /\ \E a \in activities : a.id = frame[Client].id /\ a.max_participants = 20

\* A limit of 0 is asked at creation.
C27_WitnessZero ==
  /\ Settled("create")
  /\ frame[Client].input.max_participants = 0
  /\ IsError(result[Client], "BadRequest")
  /\ activities # {}

(* C28: referential integrity holds in every reachable state: every
   participation row's activity_id names an existing activity and its
   child_id an existing child, and every activity's created_by names an
   existing staff record, after any create, update, enroll, status update
   and remove. *)
C28_ReferentialIntegrity ==
  /\ \A r \in participations :
       /\ \E a \in activities : a.id = r.activity_id
       /\ r.child_id \in ChildIds
  /\ \A a \in activities : a.created_by \in StaffIds

\* A row is enrolled, and an update naming a missing staff member was refused.
C28_Witness ==
  /\ participations # {}
  /\ \E p \in Procs :
       /\ pc[p] = "done"
       /\ frame[p].op = "update"
       /\ frame[p].id = 1
       /\ frame[p].input.created_by = NoSuchId
       /\ IsError(result[p], "StaffNotFound")

(* C29: when two removeActivityParticipation calls for the same existing id
   run concurrently, exactly one returns success true and the other success
   false, neither throws, and the row is absent afterwards. *)
C29_OneRemovalWins ==
  (BothRemovedSameId /\ \E r \in pre.participations : r.id = frame["r1"].id) =>
    /\ \A q \in Procs : result[q].kind = "success"
    /\ {result[q].value : q \in Procs} = {TRUE, FALSE}
    /\ participations = {r \in pre.participations : r.id # frame["r1"].id}

C29_Witness ==
  /\ BothRemovedSameId
  /\ \E r \in pre.participations : r.id = frame["r1"].id
  /\ result["r2"].value = TRUE
  /\ result["r1"].value = FALSE
  /\ participations # {}

(* C30: a concurrent updateActivity and updateActivityStatus on the same
   existing activity lose no update in any interleaving: the final row has
   the status set by updateActivityStatus and the field values set by
   updateActivity, the fields absent from the update keeping their values. *)
C30_NoLostUpdate ==
  \A p \in Procs : \A q \in Procs \ {p} :
    UpdatedWhileStatusSet(p, q) =>
      LET input == frame[p].input
          old   == PreActivityById(frame[p].id)
      IN  /\ result[q].kind = "row"
          /\ \E a \in activities :
               /\ a.id = old.id
               /\ a.status = frame[q].status
               /\ a.title = IF input.title # UNDEFS THEN input.title ELSE old.title
               /\ a.description = IF input.description # UNDEFS
                                  THEN OrNullS(input.description) ELSE old.description
               /\ a.activity_date = IF input.activity_date # UNDEF
                                    THEN input.activity_date ELSE old.activity_date
               /\ a.location = IF input.location # UNDEFS
                               THEN OrNullS(input.location) ELSE old.location
               /\ a.max_participants = IF input.max_participants # UNDEF
                                       THEN OrNull(input.max_participants)
                                       ELSE old.max_participants
               /\ a.created_by = IF input.created_by # UNDEF
                                 THEN input.created_by ELSE old.created_by
               /\ a.created_at = old.created_at
               /\ activities = (pre.activities \ {old}) \cup {a}

\* The status was written first, then the update, whose values were built
\* before the status was written.
C30_Witness ==
  /\ UpdatedWhileStatusSet("r1", "r2")
  /\ frame["r1"].input.title = "New Title"
  /\ result["r2"].value.status = "COMPLETED"
  /\ result["r2"].value.title = "Test Activity"
  /\ result["r1"].value.status = "COMPLETED"
  /\ PreActivityById(1).status = "ONGOING"

=============================================================================
